---- MODULE Spec2Model ----
(***************************************************************************)
(* Model of the eigenriver backend:                                        *)
(*   - the /asr/stream websocket handler ws_asr and the two transcription  *)
(*     engines it drives (routes/asr_ws.py, services/asr_stream.py,        *)
(*     services/asr_vosk.py);                                              *)
(*   - the schema-constrained generator generate_intent_json and the       *)
(*     intent route post_intent (services/cerebras.py, routes/intent.py).  *)
(*                                                                         *)
(* Spec       : the websocket sessions, all served by one asyncio event    *)
(*              loop.                                                      *)
(* SpecGen    : intent requests (generator + route).                       *)
(* SpecEngine : threads calling push_audio and finalize_segment of one     *)
(*              batch engine.                                              *)
(* SpecVosk   : the same for one streaming-recognizer engine.              *)
(* SpecVoskSeq: one streaming-recognizer engine driven by a single caller, *)
(*              one call after the other, as ws_asr drives it.             *)
(* SpecModel  : the process-wide batch model handle, from startup on.      *)
(***************************************************************************)
EXTENDS Integers, Sequences, FiniteSets, TLC

VARIABLES
    \* ---- process configuration (settings.py, asr_vosk.py import) ----
    asr_provider,       \* settings.asr_provider
    vosk_model_path,    \* settings.vosk_model_path
    vosk_installed,     \* asr_vosk.vosk is not None
    \* ---- websocket sessions ----
    pc,                 \* per connection: position of the ws_asr coroutine
    engine,             \* per connection: the local variable `engine`
    snap,               \* per connection: audio handed to the running decode
    frame,              \* per connection: kind of the message handled last
    reply,              \* per connection: what handling that message sent
    nbytes,             \* per connection: number of audio bytes received so far
    loop_busy,          \* the coroutine occupying the event-loop thread
    \* ---- history of the audio (per connection) ----
    startMark,          \* nbytes when the latest "start" was handled
    replaced,           \* buffer of the engine discarded by the latest "start"
    heard,              \* bytes transcribed since the latest "start"
    refused,            \* per connection: a "stop" was answered "no session"
    released,           \* per connection: the finally block closed the engine
    unanswered,         \* per connection: JSON-object text frames received
                        \* minus messages sent
    \* ---- intent request ----
    gpc,                \* position of the request in post_intent/generate_intent_json
    req,                \* parameters of the request
    first,              \* the first model response (status, content)
    repaired,           \* the response to the repair call
    calls,              \* model calls issued for the request
    result,             \* outcome of the request
    \* ---- one batch engine used by several threads ----
    lock,               \* the thread holding AsrEngine._lock
    shared,             \* the engine the threads share (its _pcm buffer)
    tpc,                \* per thread: position in push_audio / finalize_segment
    tlocal,             \* per thread: pcm_bytes of its push, snapshot of its finalize
    snapshots,          \* the snapshots the finalize_segment calls have taken
    npushed,            \* bytes handed to push_audio so far
    nfinalized,         \* finalize_segment calls so far
    \* ---- the process-wide batch model (asr_stream._MODEL_SINGLETON) ----
    proc,               \* the process: starting, serving, or failed at startup
    model_singleton,    \* _MODEL_SINGLETON["model"]: "none" when the key is absent
    loads,              \* WhisperModel(...) constructions attempted, per device
    got,                \* per connection: the handle its latest decode obtained
    closed,             \* connections whose engine has been closed
    mcalls              \* _get_model calls so far

wsvars  == <<asr_provider, vosk_model_path, vosk_installed, pc, engine, snap,
             frame, reply, nbytes, loop_busy, startMark, replaced, heard,
             refused, released, unanswered>>
genvars == <<gpc, req, first, repaired, calls, result>>
thrvars == <<lock, shared, tpc, tlocal, snapshots, npushed, nfinalized>>
modvars == <<proc, model_singleton, loads, got, closed, mcalls>>
vars    == <<wsvars, genvars, thrvars, modvars>>

(***************************************************************************)
(* Bounds                                                                  *)
(***************************************************************************)
MaxBytes == 3                     \* audio bytes the server receives at most
MaxPushes == 3                    \* push_audio calls on the shared engine
MaxFinalizes == 2                 \* finalize_segment calls on the shared engine
Threads == {"t1", "t2"}           \* threads using the shared engine
MaxModelCalls == 4                \* _get_model calls in the life of the process
Sessions == {"c1", "c2"}          \* concurrent connections
FrameLens == {1, 2}               \* sizes of a binary frame, in bytes
NoOne == "nobody"

Range(q) == {q[i] : i \in 1..Len(q)}

(***************************************************************************)
(* Transcription engines                                                   *)
(***************************************************************************)
DefaultSampleRate == 16000

\* `engine = None`
NoEngine == [kind |-> "none", sample_rate |-> 0, pcm |-> <<>>, rec |-> <<>>]

\* AsrEngine.__init__: a fresh, empty buffer
WhisperAsrEngine(sample_rate) ==
    [kind |-> "whisper", sample_rate |-> sample_rate, pcm |-> <<>>, rec |-> <<>>]

\* _get_vosk_model / VoskAsrEngine.__init__ raise RuntimeError
VoskConstructionRaises == (~vosk_installed) \/ vosk_model_path = ""

\* VoskAsrEngine.__init__: a fresh recognizer and a fresh, empty buffer
VoskAsrEngine(sample_rate) ==
    [kind |-> "vosk", sample_rate |-> sample_rate, pcm |-> <<>>, rec |-> <<>>]

\* push_audio of either engine: the batch engine extends the buffer; the
\* streaming engine extends the buffer and feeds the recognizer
push_audio(e, bytes) ==
    IF e.kind = "vosk"
    THEN [e EXCEPT !.pcm = @ \o bytes, !.rec = @ \o bytes]
    ELSE [e EXCEPT !.pcm = @ \o bytes]

\* the audio a finalize_segment decodes: the snapshot of the buffer (batch
\* engine) or whatever the recognizer was fed since its reset (streaming)
DecodedAudio(e) == IF e.kind = "vosk" THEN e.rec ELSE e.pcm

\* the engine after finalize_segment took its snapshot / reset the recognizer
Cleared(e) == [e EXCEPT !.pcm = <<>>, !.rec = <<>>]

\* np.frombuffer(snapshot, dtype=np.int16) raises ValueError on an odd length
FrombufferRaises(e, audio) == e.kind = "whisper" /\ Len(audio) % 2 = 1

\* texts a decode of non-empty audio can produce
Texts == {"", "alpha flank left"}

(***************************************************************************)
(* Replies of ws_asr                                                       *)
(***************************************************************************)
NoReply      == [type |-> "none",  arg |-> ""]
Ready        == [type |-> "ready", arg |-> ""]
Final(text)  == [type |-> "final", arg |-> text]
Error(msg)   == [type |-> "error", arg |-> msg]

\* kinds of frame a client can send
IgnoredText  == {"empty", "malformed"}
UnknownTypes == {"notype", "ping"}
\* an error text that does not name the type
UnknownMsg_Generic(f) == "unknown type"

UnknownMsg(f) == IF f = "notype" THEN "unknown type: None" ELSE "unknown type: ping"

(***************************************************************************)
(* ws_asr: one coroutine per connection, all on one event loop.  A step of *)
(* a handler runs from one await to the next; finalize_segment contains no *)
(* await, so the decode it runs keeps the event-loop thread (loop_busy)    *)
(* from the moment "stop" is dispatched until the reply is sent.           *)
(***************************************************************************)
WsInit ==
    /\ asr_provider \in {"whisper", "vosk"}
    /\ vosk_installed \in BOOLEAN
    /\ vosk_model_path \in {"", "models/vosk-small-en"}
    /\ asr_provider = "whisper" => (vosk_installed /\ vosk_model_path = "")
    /\ pc = [s \in Sessions |-> "loop"]
    /\ engine = [s \in Sessions |-> NoEngine]
    /\ snap = [s \in Sessions |-> <<>>]
    /\ frame = [s \in Sessions |-> "accept"]
    /\ reply = [s \in Sessions |-> NoReply]
    /\ nbytes = [s \in Sessions |-> 0]
    /\ loop_busy = NoOne
    /\ startMark = [s \in Sessions |-> 0]
    /\ replaced = [s \in Sessions |-> <<>>]
    /\ heard = [s \in Sessions |-> {}]
    /\ refused = [s \in Sessions |-> FALSE]
    /\ released = [s \in Sessions |-> FALSE]
    /\ unanswered = [s \in Sessions |-> 0]

config == <<asr_provider, vosk_model_path, vosk_installed>>
audioHistory == <<startMark, replaced, heard>>
history == <<audioHistory, refused>>

\* the handler of s is suspended in `await websocket.receive()` and the event
\* loop is free to resume it
CanReceive(s) == pc[s] = "loop" /\ loop_busy = NoOne

\* the text frames that json.loads turns into a dict (line 42)
ObjectFrames == {"start", "start_bad", "stop"} \cup UnknownTypes

\* what the handler did with the message: its kind and what was sent
Handled(s, f, r) ==
    /\ frame' = [frame EXCEPT ![s] = f]
    /\ reply' = [reply EXCEPT ![s] = r]
    /\ unanswered' = [unanswered EXCEPT ![s] =
                         @ + (IF f \in ObjectFrames THEN 1 ELSE 0)
                           - (IF r # NoReply THEN 1 ELSE 0)]

\* a handler that ends without closing its engine
Finally_NoClose(s) == released' = released

\* lines 68-70: the finally block calls close() on the engine the handler
\* holds, if it holds one (close itself does nothing in either engine)
Finally(s) == released' = [released EXCEPT ![s] = engine[s] # NoEngine]

\* an exception other than WebSocketDisconnect leaves the loop through the
\* finally block and the coroutine ends
Raise(s) == pc' = [pc EXCEPT ![s] = "crashed"] /\ Finally(s)

\* the next n bytes of the connection's audio stream
NewBytes(s, n) == [i \in 1..n |-> nbytes[s] + i]

\* audio bytes received on all connections so far
RECURSIVE Sum(_, _)
Sum(f, S) == IF S = {} THEN 0 ELSE LET x == CHOOSE x \in S : TRUE IN f[x] + Sum(f, S \ {x})
Received == Sum(nbytes, Sessions)

\* a binary frame that is answered with an error when there is no engine
ReceiveBytes_Reported(s, n) ==
    /\ CanReceive(s)
    /\ Received + n <= MaxBytes
    /\ nbytes' = [nbytes EXCEPT ![s] = @ + n]
    /\ engine' = IF engine[s] = NoEngine
                 THEN engine
                 ELSE [engine EXCEPT ![s] = push_audio(@, NewBytes(s, n))]
    /\ Handled(s, "bytes", IF engine[s] = NoEngine THEN Error("no session") ELSE NoReply)
    /\ UNCHANGED <<config, pc, snap, loop_busy, history, released, genvars, thrvars, modvars>>

\* lines 30-36: a binary frame
ReceiveBytes(s, n) ==
    /\ CanReceive(s)
    /\ Received + n <= MaxBytes
    /\ nbytes' = [nbytes EXCEPT ![s] = @ + n]
    /\ engine' = IF engine[s] = NoEngine
                 THEN engine
                 ELSE [engine EXCEPT ![s] = push_audio(@, NewBytes(s, n))]
    /\ Handled(s, "bytes", NoReply)
    /\ UNCHANGED <<config, pc, snap, loop_busy, history, released, genvars, thrvars, modvars>>

\* a text frame that is not JSON is reported to the client
ReceiveIgnoredText_Reported(s, f) ==
    /\ CanReceive(s)
    /\ f \in IgnoredText
    /\ Handled(s, f, IF f = "malformed" THEN Error("invalid json") ELSE NoReply)
    /\ UNCHANGED <<config, pc, engine, snap, nbytes, loop_busy, history, released, genvars, thrvars, modvars>>

\* lines 38-44: a text frame that is empty or is not JSON
ReceiveIgnoredText(s, f) ==
    /\ CanReceive(s)
    /\ f \in IgnoredText
    /\ Handled(s, f, NoReply)
    /\ UNCHANGED <<config, pc, engine, snap, nbytes, loop_busy, history, released, genvars, thrvars, modvars>>

\* line 46: obj.get on a JSON value that is not an object (a list, a number,
\* a string, null) raises AttributeError
ReceiveNonObject(s) ==
    /\ CanReceive(s)
    /\ Raise(s)
    /\ Handled(s, "nonobject", NoReply)
    /\ UNCHANGED <<config, engine, snap, nbytes, loop_busy, history, genvars, thrvars, modvars>>

\* lines 64-65: an object whose type is neither "start" nor "stop"
ReceiveUnknown(s, f) ==
    /\ CanReceive(s)
    /\ f \in UnknownTypes
    /\ Handled(s, f, Error(UnknownMsg(f)))
    /\ UNCHANGED <<config, pc, engine, snap, nbytes, loop_busy, history, released, genvars, thrvars, modvars>>

\* lines 52-56: the engine of the configured backend
StartRaises == asr_provider = "vosk" /\ VoskConstructionRaises

ConstructEngine_Reuse(s, sample_rate) ==
    IF engine[s] # NoEngine
    THEN engine[s]
    ELSE IF asr_provider = "vosk"
         THEN VoskAsrEngine(sample_rate)
         ELSE WhisperAsrEngine(sample_rate)

ConstructEngine(s, sample_rate) ==
    IF asr_provider = "vosk"
    THEN VoskAsrEngine(sample_rate)
    ELSE WhisperAsrEngine(sample_rate)

\* lines 47-57: "start"; numeric is whether int(obj.get("sample_rate", 16000))
\* succeeds
ReceiveStart(s, numeric) ==
    /\ CanReceive(s)
    /\ IF ~numeric
       THEN /\ Raise(s)
            /\ Handled(s, "start_bad", NoReply)
            /\ UNCHANGED <<engine, audioHistory>>
       ELSE IF StartRaises
       THEN /\ Raise(s)
            /\ Handled(s, "start", NoReply)
            /\ UNCHANGED <<engine, audioHistory>>
       ELSE /\ engine' = [engine EXCEPT ![s] = ConstructEngine(s, DefaultSampleRate)]
            /\ Handled(s, "start", Ready)
            /\ startMark' = [startMark EXCEPT ![s] = nbytes[s]]
            /\ replaced' = [replaced EXCEPT ![s] = engine[s].pcm]
            /\ heard' = [heard EXCEPT ![s] = {}]
            /\ UNCHANGED <<pc, released>>
    /\ UNCHANGED <<config, snap, nbytes, loop_busy, refused, genvars, thrvars, modvars>>

\* line 60: the reply to a "stop" when there is no engine
NoSessionReply_Final == Final("")

NoSessionReply == Error("no session")

\* "stop" without the empty-snapshot return of asr_stream.py lines 89-90: the
\* batch engine decodes whatever the snapshot holds
ReceiveStop_AlwaysDecode(s) ==
    /\ CanReceive(s)
    /\ IF engine[s] = NoEngine
       THEN /\ Handled(s, "stop", NoSessionReply)
            /\ refused' = [refused EXCEPT ![s] = TRUE]
            /\ UNCHANGED <<pc, engine, snap, loop_busy>>
       ELSE /\ snap' = [snap EXCEPT ![s] = DecodedAudio(engine[s])]
            /\ engine' = [engine EXCEPT ![s] =
                             IF @.kind = "whisper" THEN Cleared(@) ELSE @]
            /\ pc' = [pc EXCEPT ![s] = "transcribing"]
            /\ loop_busy' = s
            /\ Handled(s, "stop", NoReply)
            /\ UNCHANGED refused
    /\ UNCHANGED <<config, nbytes, audioHistory, released, genvars, thrvars, modvars>>

\* lines 58-62: "stop" up to the point where finalize_segment starts decoding.
\* The batch engine snapshots and clears its buffer, and returns "" at once
\* when the snapshot is empty; the streaming engine asks for FinalResult().
ReceiveStop(s) ==
    /\ CanReceive(s)
    /\ IF engine[s] = NoEngine
       THEN /\ Handled(s, "stop", NoSessionReply)
            /\ refused' = [refused EXCEPT ![s] = TRUE]
            /\ UNCHANGED <<pc, engine, snap, loop_busy>>
       ELSE IF engine[s].kind = "whisper" /\ engine[s].pcm = <<>>
       THEN /\ Handled(s, "stop", Final(""))
            /\ UNCHANGED <<pc, engine, snap, loop_busy, refused>>
       ELSE /\ snap' = [snap EXCEPT ![s] = DecodedAudio(engine[s])]
            /\ engine' = [engine EXCEPT ![s] =
                             IF @.kind = "whisper" THEN Cleared(@) ELSE @]
            /\ pc' = [pc EXCEPT ![s] = "transcribing"]
            /\ loop_busy' = s
            /\ Handled(s, "stop", NoReply)
            /\ UNCHANGED refused
    /\ UNCHANGED <<config, nbytes, audioHistory, released, genvars, thrvars, modvars>>

\* lines 62-63 and the rest of finalize_segment: the decode ends and the
\* handler sends "final"
FinishFinalize(s, text) ==
    /\ pc[s] = "transcribing"
    /\ loop_busy = s
    /\ text \in Texts
    /\ snap[s] = <<>> => text = ""
    /\ loop_busy' = NoOne
    /\ snap' = [snap EXCEPT ![s] = <<>>]
    /\ IF FrombufferRaises(engine[s], snap[s])
       THEN /\ Raise(s)
            /\ UNCHANGED <<engine, reply, heard, unanswered>>
       ELSE /\ pc' = [pc EXCEPT ![s] = "loop"]
            /\ engine' = [engine EXCEPT ![s] = Cleared(@)]
            /\ reply' = [reply EXCEPT ![s] = Final(text)]
            /\ unanswered' = [unanswered EXCEPT ![s] = @ - 1]
            /\ heard' = [heard EXCEPT ![s] = @ \cup Range(snap[s])]
            /\ UNCHANGED released
    /\ UNCHANGED <<config, frame, nbytes, startMark, replaced, refused, genvars, thrvars, modvars>>

\* lines 66-70: the connection ends; the handler leaves the loop and the
\* finally block closes the engine
Disconnect(s) ==
    /\ CanReceive(s)
    /\ pc' = [pc EXCEPT ![s] = "closed"]
    /\ Finally(s)
    /\ Handled(s, "disconnect", NoReply)
    /\ UNCHANGED <<config, engine, snap, nbytes, loop_busy, history, genvars, thrvars, modvars>>

(***************************************************************************)
(* JSON values.  Every value is a record of one shape: kind tells null,    *)
(* list and object apart; has is the set of keys an object carries; bad is *)
(* the set of keys whose value has the wrong JSON type (speed: "fast").    *)
(***************************************************************************)
Blank ==
    [kind |-> "object", has |-> {}, bad |-> {}, type |-> "", targets |-> <<>>,
     action |-> "", formation |-> "", direction |-> "", speed |-> 0,
     pathLen |-> 0, zoneR |-> 0, deployCount |-> 0, commands |-> <<>>]

\* Python's None, which is also what json.loads("null") returns
None == [Blank EXCEPT !.kind = "null"]

\* a JSON array at top level
JList == [Blank EXCEPT !.kind = "list"]

\* routes/intent.py: the closed vocabularies
Target == {"alpha", "bravo", "charlie", "all", "carriers", "interceptors"}
Action == {"flank", "pincer", "hold", "advance", "screen", "intercept", "retreat",
           "patrol", "rally", "escort", "attack", "defend", "regroup",
           "focus_fire", "deploy"}
Formation == {"none", "wall", "wedge", "sphere", "swarm", "column", "line", "diamond"}
Direction == {"left", "right", "center", "north", "south", "east", "west", "bearing",
              "vector", "none", "towards_enemies", "away_from_enemies"}

SingleRequired == {"targets", "action", "formation", "direction", "speed"}
SingleFields == SingleRequired \cup {"path", "zone", "deployCount"}

\* a SingleIntent whose speed has no upper bound
SingleIntentValid_NoSpeedBound(v) ==
    /\ v.kind = "object"
    /\ SingleRequired \subseteq v.has
    /\ v.bad \cap SingleFields = {}
    /\ Range(v.targets) \subseteq Target
    /\ v.action \in Action
    /\ v.formation \in Formation
    /\ v.direction \in Direction
    /\ v.speed >= 0
    /\ "path" \in v.has => v.pathLen > 0
    /\ "zone" \in v.has => v.zoneR > 0
    /\ "deployCount" \in v.has => (v.deployCount >= 1 /\ v.deployCount <= 10)

\* routes/intent.py SingleIntent.model_validate(v) does not raise
SingleIntentValid(v) ==
    /\ v.kind = "object"
    /\ SingleRequired \subseteq v.has
    /\ v.bad \cap SingleFields = {}
    /\ Range(v.targets) \subseteq Target
    /\ v.action \in Action
    /\ v.formation \in Formation
    /\ v.direction \in Direction
    /\ v.speed >= 0 /\ v.speed <= 10
    /\ "path" \in v.has => v.pathLen > 0
    /\ "zone" \in v.has => v.zoneR > 0
    /\ "deployCount" \in v.has => (v.deployCount >= 1 /\ v.deployCount <= 10)

\* routes/intent.py MultiIntent.model_validate(v) does not raise
MultiIntentValid(v) ==
    /\ v.kind = "object"
    /\ {"type", "commands"} \subseteq v.has
    /\ v.bad \cap {"type", "commands"} = {}
    /\ v.type = "multi"
    /\ \A i \in 1..Len(v.commands) : SingleIntentValid(v.commands[i])

CommandFields == {"targets", "action", "formation", "direction", "speed", "path",
                  "zone", "deployCount", "deployFormation", "waypointTargets",
                  "cycleWaypoints", "pathCycle", "relativeMove", "relativeMovement",
                  "helpTarget", "targetSquad", "maintainSpacing"}

\* schemas/intent_schema.py IntentCommand.model_validate(v) does not raise:
\* every field optional, extra keys allowed
IntentCommandValid(v) ==
    /\ v.kind = "object"
    /\ v.bad \cap CommandFields = {}
    /\ "speed" \in v.has => (v.speed >= 0 /\ v.speed <= 10)
    /\ "deployCount" \in v.has => v.deployCount >= 1

\* schemas/intent_schema.py MultiIntent.model_validate(v) does not raise
FlexMultiValid(v) ==
    /\ v.kind = "object"
    /\ "commands" \in v.has
    /\ v.bad \cap {"type", "commands"} = {}
    /\ "type" \in v.has => v.type = "multi"
    /\ \A i \in 1..Len(v.commands) : IntentCommandValid(v.commands[i])

\* schema_model of generate_intent_json: a pydantic model, or the Union
\* FlexibleIntent for which the function builds a schema by hand
Schemas == {"SingleIntent", "IntentCommand", "FlexibleIntent"}

\* a validation that takes a batch of valid commands for a SingleIntent
model_validate_Batches(schema, v) ==
    CASE schema = "SingleIntent"  -> SingleIntentValid(v) \/ MultiIntentValid(v)
      [] schema = "IntentCommand" -> IntentCommandValid(v)
      [] OTHER                    -> FALSE

\* line 178, schema_model.model_validate(parsed) returns.  typing.Union has no
\* attribute model_validate: for a Union the call raises AttributeError,
\* which `except Exception` takes for a validation failure
model_validate(schema, v) ==
    CASE schema = "SingleIntent"  -> SingleIntentValid(v)
      [] schema = "IntentCommand" -> IntentCommandValid(v)
      [] OTHER                    -> FALSE

(***************************************************************************)
(* Model responses                                                         *)
(***************************************************************************)
Flank ==
    [Blank EXCEPT !.has = SingleRequired, !.targets = <<"alpha">>, !.action = "flank",
                  !.formation = "wedge", !.direction = "left", !.speed = 5]
\* the prompt's own example 'Deploy 18 squads'
Deploy18 ==
    [Blank EXCEPT !.has = {"action", "deployCount"}, !.action = "deploy",
                  !.deployCount = 18]
\* the prompt's own example 'Top right squads help alpha'
HelpAlpha ==
    [Blank EXCEPT !.has = {"targets", "action", "helpTarget"},
                  !.targets = <<"top_right_squads">>, !.action = "help"]
TooFast == [Flank EXCEPT !.speed = 11]
SpeedString == [Flank EXCEPT !.bad = {"speed"}]
\* a valid single command that also carries the key type: "multi"
FlankTagged == [Flank EXCEPT !.has = @ \cup {"type"}, !.type = "multi"]
Multi(cmds) ==
    [Blank EXCEPT !.has = {"type", "commands"}, !.type = "multi", !.commands = cmds]

\* complete commands with one field outside the strict schema, and one at
\* its edge
Charge        == [Flank EXCEPT !.action = "charge"]
EmptyPath     == [Flank EXCEPT !.has = @ \cup {"path"}, !.pathLen = 0]
ZeroZone      == [Flank EXCEPT !.has = @ \cup {"zone"}, !.zoneR = 0]
FlankDeploy18 == [Flank EXCEPT !.has = @ \cup {"deployCount"}, !.deployCount = 18]
FlankDeploy10 == [Flank EXCEPT !.has = @ \cup {"deployCount"}, !.deployCount = 10]

Values == {None, JList, Flank, Deploy18, HelpAlpha, TooFast, SpeedString, FlankTagged,
           Charge, EmptyPath, ZeroZone, FlankDeploy18, FlankDeploy10,
           Multi(<<>>), Multi(<<Flank>>), Multi(<<Flank, Flank>>),
           Multi(<<Flank, TooFast>>), Multi(<<HelpAlpha>>)}

\* the text of a response: the JSON text of a value, or that text wrapped in
\* a markdown fence / followed by commentary, which json.loads rejects
JsonText(v) == [wellformed |-> TRUE, value |-> v]
Fenced(v)   == [wellformed |-> FALSE, value |-> v]
Contents == {JsonText(v) : v \in Values} \cup {Fenced(Flank), Fenced(Multi(<<Flank>>))}
NoContent == Fenced(None)

\* lines 169-173: json.loads, None on any exception
try_parse(c) == IF c.wellformed THEN c.value ELSE None

\* statuses of the upstream call: success, rate limit, another failure
Statuses == {200, 429, 500}

\* _post_chat lines 25-30: the RuntimeError raised for a non-success status
UpstreamError(status) ==
    IF status = 429
    THEN "Cerebras API rate limit reached. Please wait a moment before trying again."
    ELSE "Cerebras API error: 500"

\* lines 29-30: the class of the exception _post_chat raises for a
\* non-success status; both raise statements construct a RuntimeError
UpstreamErrorClass(status) == "RuntimeError"

(***************************************************************************)
(* generate_intent_json and post_intent                                    *)
(***************************************************************************)
Response(status, content) == [status |-> status, content |-> content]
NoResponse == Response(0, NoContent)

\* how generate_intent_json leaves a step: it returns a value, raises
\* RuntimeError(detail), or goes on to the repair call
Return(v)     == [kind |-> "return", value |-> v, detail |-> ""]
RaiseErr(msg) == [kind |-> "raise", value |-> None, detail |-> msg]
GoRepair      == [kind |-> "repair", value |-> None, detail |-> ""]

\* AfterFirst without the test of line 183: the repair is attempted whatever
\* enforce_schema says
AfterFirst_RepairAlways(schema, enforce_schema, content) ==
    LET parsed0 == try_parse(content)
        valid   == parsed0 # None /\ model_validate(schema, parsed0)
    IN  IF valid THEN Return(parsed0) ELSE GoRepair

\* lines 175-186 (and the fall-through to line 188): what the function does
\* with the content of the first response
AfterFirst(schema, enforce_schema, content) ==
    LET parsed0 == try_parse(content)
        valid   == parsed0 # None /\ model_validate(schema, parsed0)
        \* line 181: a parsed value that failed validation is forgotten
        parsed  == IF parsed0 # None /\ ~valid THEN None ELSE parsed0
    IN  IF valid THEN Return(parsed0)
        ELSE IF ~enforce_schema
             THEN IF parsed = None
                  THEN RaiseErr("Model did not return valid JSON")
                  ELSE Return(parsed)
             ELSE GoRepair

\* lines 205-209: what the function does with the content of the repair
AfterRepair(content) ==
    LET parsed2 == try_parse(content)
    IN  IF parsed2 = None
        THEN RaiseErr("Repair failed: non-JSON output")
        ELSE Return(parsed2)

\* the validated models post_intent puts in the response: declared fields only
SingleDump(v) == [v EXCEPT !.has = @ \cap SingleFields, !.type = "", !.commands = <<>>]
MultiDump(v) ==
    [Blank EXCEPT !.has = {"type", "commands"}, !.type = "multi",
                  !.commands = [i \in 1..Len(v.commands) |-> SingleDump(v.commands[i])]]

\* the outcome of a request
Outcome(kind, status, detail, value, source, generated) ==
    [kind |-> kind, status |-> status, detail |-> detail, value |-> value,
     source |-> source, generated |-> generated]
NoResult == Outcome("none", 0, "", None, "", FALSE)

\* a discriminator test that takes a batch of fewer than two commands for a
\* single command
IsMulti_TwoOrMore(raw) == raw.kind = "object" /\ "type" \in raw.has /\ "type" \notin raw.bad
                          /\ raw.type = "multi" /\ Len(raw.commands) >= 2

\* routes/intent.py line 114: the discriminator test
IsMulti(raw) == raw.kind = "object" /\ "type" \in raw.has /\ "type" \notin raw.bad
                /\ raw.type = "multi"

\* a route that tells the client when the intent came from the repair call
post_intent_Repaired(g) ==
    LET source == IF gpc = "repair_call" THEN "repaired" ELSE "llm"
    IN  IF g.kind = "raise"
        THEN Outcome("error", 502, g.detail, None, "", FALSE)
        ELSE IF IsMulti(g.value)
             THEN IF MultiIntentValid(g.value)
                  THEN Outcome("ok", 200, "", MultiDump(g.value), source, TRUE)
                  ELSE Outcome("error", 422, "validation", None, "", TRUE)
             ELSE IF SingleIntentValid(g.value)
                  THEN Outcome("ok", 200, "", SingleDump(g.value), source, TRUE)
                  ELSE Outcome("error", 422, "validation", None, "", TRUE)

\* post_intent lines 99-121 applied to how generate_intent_json ended
post_intent(g) ==
    IF g.kind = "raise"
    THEN Outcome("error", 502, g.detail, None, "", FALSE)
    ELSE IF IsMulti(g.value)
         THEN IF MultiIntentValid(g.value)
              THEN Outcome("ok", 200, "", MultiDump(g.value), "llm", TRUE)
              ELSE Outcome("error", 422, "validation", None, "", TRUE)
         ELSE IF SingleIntentValid(g.value)
              THEN Outcome("ok", 200, "", SingleDump(g.value), "llm", TRUE)
              ELSE Outcome("error", 422, "validation", None, "", TRUE)

\* a direct caller of generate_intent_json gets the value or the RuntimeError
direct(g) ==
    IF g.kind = "raise"
    THEN Outcome("error", 0, g.detail, None, "", FALSE)
    ELSE Outcome("ok", 0, "", g.value, "", TRUE)

Finish(g) == IF req.caller = "route" THEN post_intent(g) ELSE direct(g)

GenInit ==
    /\ gpc = "idle"
    /\ req = [caller |-> "route", schema |-> "SingleIntent", enforce_schema |-> TRUE]
    /\ first = NoResponse
    /\ repaired = NoResponse
    /\ calls = 0
    /\ result = NoResult

\* a request arrives (post_intent always passes SingleIntent) and the first
\* model call is issued, lines 160-167
NewRequest(caller, schema, enforce_schema) ==
    /\ gpc \in {"idle", "done"}
    /\ caller = "route" => schema = "SingleIntent"
    /\ req' = [caller |-> caller, schema |-> schema, enforce_schema |-> enforce_schema]
    /\ gpc' = "first_call"
    /\ calls' = 1
    /\ first' = NoResponse
    /\ repaired' = NoResponse
    /\ result' = NoResult
    /\ UNCHANGED <<wsvars, thrvars, modvars>>

\* a first call whose failure is followed by the repair call
FirstResponse_RepairOnFailure(status, content) ==
    /\ gpc = "first_call"
    /\ status = 200 \/ content = NoContent
    /\ first' = Response(status, content)
    /\ LET g == IF status # 200
                THEN GoRepair
                ELSE AfterFirst(req.schema, req.enforce_schema, content)
       IN  IF g.kind = "repair"
           THEN /\ gpc' = "repair_call"
                /\ calls' = calls + 1
                /\ UNCHANGED result
           ELSE /\ gpc' = "done"
                /\ result' = Finish(g)
                /\ UNCHANGED calls
    /\ UNCHANGED <<req, repaired, wsvars, thrvars, modvars>>

\* the first call completes
FirstResponse(status, content) ==
    /\ gpc = "first_call"
    /\ status = 200 \/ content = NoContent
    /\ first' = Response(status, content)
    /\ LET g == IF status # 200
                THEN RaiseErr(UpstreamError(status))
                ELSE AfterFirst(req.schema, req.enforce_schema, content)
       IN  IF g.kind = "repair"
           THEN /\ gpc' = "repair_call"
                /\ calls' = calls + 1
                /\ UNCHANGED result
           ELSE /\ gpc' = "done"
                /\ result' = Finish(g)
                /\ UNCHANGED calls
    /\ UNCHANGED <<req, repaired, wsvars, thrvars, modvars>>

\* the repair call, lines 195-204, completes
RepairResponse(status, content) ==
    /\ gpc = "repair_call"
    /\ status = 200 \/ content = NoContent
    /\ repaired' = Response(status, content)
    /\ LET g == IF status # 200
                THEN RaiseErr(UpstreamError(status))
                ELSE AfterRepair(content)
       IN  /\ gpc' = "done"
           /\ result' = Finish(g)
    /\ UNCHANGED <<req, first, calls, wsvars, thrvars, modvars>>

(***************************************************************************)
(* AsrEngine under threads (services/asr_stream.py).  push_audio and       *)
(* finalize_segment touch _pcm only inside `with self._lock`; a step here  *)
(* is one statement of those methods.  Every push carries one byte, named  *)
(* by its number.                                                          *)
(***************************************************************************)
EngInit ==
    /\ lock = NoOne
    /\ shared = WhisperAsrEngine(DefaultSampleRate)
    /\ tpc = [t \in Threads |-> "idle"]
    /\ tlocal = [t \in Threads |-> <<>>]
    /\ snapshots = <<>>
    /\ npushed = 0
    /\ nfinalized = 0

\* a thread calls push_audio(pcm_bytes)
CallPush(t) ==
    /\ tpc[t] = "idle"
    /\ npushed < MaxPushes
    /\ npushed' = npushed + 1
    /\ tlocal' = [tlocal EXCEPT ![t] = <<npushed + 1>>]
    /\ tpc' = [tpc EXCEPT ![t] = "push_enter"]
    /\ UNCHANGED <<lock, shared, snapshots, nfinalized, wsvars, genvars, modvars>>

\* entering the with block without waiting for the lock
Acquire_NoWait(t, from, to) ==
    /\ tpc[t] = from
    /\ lock' = t
    /\ tpc' = [tpc EXCEPT ![t] = to]
    /\ UNCHANGED <<shared, tlocal, snapshots, npushed, nfinalized, wsvars, genvars, modvars>>

\* lines 56 and 85, `with self._lock:` acquires the lock when it is free
Acquire(t, from, to) ==
    /\ tpc[t] = from
    /\ lock = NoOne
    /\ lock' = t
    /\ tpc' = [tpc EXCEPT ![t] = to]
    /\ UNCHANGED <<shared, tlocal, snapshots, npushed, nfinalized, wsvars, genvars, modvars>>

\* line 56
PushAcquire(t) == Acquire(t, "push_enter", "push_locked")

\* line 57, self._pcm.extend(pcm_bytes), and the end of the with block
PushExtend(t) ==
    /\ tpc[t] = "push_locked"
    /\ shared' = push_audio(shared, tlocal[t])
    /\ lock' = IF lock = t THEN NoOne ELSE lock
    /\ tlocal' = [tlocal EXCEPT ![t] = <<>>]
    /\ tpc' = [tpc EXCEPT ![t] = "idle"]
    /\ UNCHANGED <<snapshots, npushed, nfinalized, wsvars, genvars, modvars>>

\* a thread calls finalize_segment()
CallFinalize(t) ==
    /\ tpc[t] = "idle"
    /\ nfinalized < MaxFinalizes
    /\ nfinalized' = nfinalized + 1
    /\ tpc' = [tpc EXCEPT ![t] = "fin_enter"]
    /\ UNCHANGED <<lock, shared, tlocal, snapshots, npushed, wsvars, genvars, modvars>>

\* line 85
FinAcquire(t) == Acquire(t, "fin_enter", "fin_locked")

\* line 86, snapshot = bytes(self._pcm)
FinSnapshot(t) ==
    /\ tpc[t] = "fin_locked"
    /\ tlocal' = [tlocal EXCEPT ![t] = shared.pcm]
    /\ tpc' = [tpc EXCEPT ![t] = "fin_snapped"]
    /\ UNCHANGED <<lock, shared, snapshots, npushed, nfinalized, wsvars, genvars, modvars>>

\* line 87, self._pcm.clear(), and the end of the with block
FinClear(t) ==
    /\ tpc[t] = "fin_snapped"
    /\ shared' = Cleared(shared)
    /\ lock' = IF lock = t THEN NoOne ELSE lock
    /\ tpc' = [tpc EXCEPT ![t] = "fin_decode"]
    /\ UNCHANGED <<tlocal, snapshots, npushed, nfinalized, wsvars, genvars, modvars>>

\* lines 89-103: the snapshot is decoded (or found empty) outside the lock
\* and the call returns
FinReturn(t) ==
    /\ tpc[t] = "fin_decode"
    /\ snapshots' = Append(snapshots, tlocal[t])
    /\ tlocal' = [tlocal EXCEPT ![t] = <<>>]
    /\ tpc' = [tpc EXCEPT ![t] = "idle"]
    /\ UNCHANGED <<lock, shared, npushed, nfinalized, wsvars, genvars, modvars>>

(***************************************************************************)
(* VoskAsrEngine under threads (services/asr_vosk.py).  A step is one      *)
(* statement of push_audio or finalize_segment.  rec is the audio the      *)
(* recognizer has accepted since its last Reset.  The recognizer is a      *)
(* foreign object: FinalResult() may raise, and the text it returns may    *)
(* fail json.loads / .get.                                                 *)
(***************************************************************************)
VoskInit ==
    /\ lock = NoOne
    /\ shared = VoskAsrEngine(DefaultSampleRate)
    /\ tpc = [t \in Threads |-> "idle"]
    /\ tlocal = [t \in Threads |-> <<>>]
    /\ snapshots = <<>>
    /\ npushed = 0
    /\ nfinalized = 0

\* line 62: a thread calls push_audio(pcm_bytes)
VoskCallPush(t) == CallPush(t)

\* line 63
VoskPushAcquire(t) == Acquire(t, "push_enter", "push_locked")

\* line 64, self._buf.pcm.extend(pcm_bytes), and the end of the with block
VoskPushExtend(t) ==
    /\ tpc[t] = "push_locked"
    /\ shared' = [shared EXCEPT !.pcm = @ \o tlocal[t]]
    /\ lock' = IF lock = t THEN NoOne ELSE lock
    /\ tpc' = [tpc EXCEPT ![t] = "push_feed"]
    /\ UNCHANGED <<tlocal, snapshots, npushed, nfinalized, wsvars, genvars, modvars>>

\* line 66, self.rec.AcceptWaveform(pcm_bytes), outside the lock
AcceptWaveform(t) ==
    /\ tpc[t] = "push_feed"
    /\ shared' = [shared EXCEPT !.rec = @ \o tlocal[t]]
    /\ tlocal' = [tlocal EXCEPT ![t] = <<>>]
    /\ tpc' = [tpc EXCEPT ![t] = "idle"]
    /\ UNCHANGED <<lock, snapshots, npushed, nfinalized, wsvars, genvars, modvars>>

\* lines 78-80: a thread calls finalize_segment(); vosk is not None, or the
\* engine could not have been constructed
VoskCallFinalize(t) ==
    /\ tpc[t] = "idle"
    /\ nfinalized < MaxFinalizes
    /\ nfinalized' = nfinalized + 1
    /\ tpc' = [tpc EXCEPT ![t] = "fin_result"]
    /\ UNCHANGED <<lock, shared, tlocal, snapshots, npushed, wsvars, genvars, modvars>>

\* line 81, res = self.rec.FinalResult(), before the try statement: when it
\* raises, the call ends there
FinalResult(t, raises) ==
    /\ tpc[t] = "fin_result"
    /\ IF raises
       THEN /\ tpc' = [tpc EXCEPT ![t] = "idle"]
            /\ UNCHANGED tlocal
       ELSE /\ tpc' = [tpc EXCEPT ![t] = "fin_try"]
            /\ tlocal' = [tlocal EXCEPT ![t] = shared.rec]
    /\ UNCHANGED <<lock, shared, snapshots, npushed, nfinalized, wsvars, genvars, modvars>>

\* lines 82-84, the body of the try statement: it returns the text or raises,
\* and either way control passes to the finally block
TryBody(t) ==
    /\ tpc[t] = "fin_try"
    /\ tpc' = [tpc EXCEPT ![t] = "fin_reset"]
    /\ UNCHANGED <<lock, shared, tlocal, snapshots, npushed, nfinalized, wsvars, genvars, modvars>>

\* line 86, self.rec.Reset()
Reset(t) ==
    /\ tpc[t] = "fin_reset"
    /\ shared' = [shared EXCEPT !.rec = <<>>]
    /\ tpc' = [tpc EXCEPT ![t] = "fin_enter"]
    /\ UNCHANGED <<lock, tlocal, snapshots, npushed, nfinalized, wsvars, genvars, modvars>>

\* line 87
VoskFinAcquire(t) == Acquire(t, "fin_enter", "fin_locked")

\* line 88, self._buf.pcm.clear(), the end of the with block and of the call
VoskFinClear(t) ==
    /\ tpc[t] = "fin_locked"
    /\ shared' = [shared EXCEPT !.pcm = <<>>]
    /\ lock' = IF lock = t THEN NoOne ELSE lock
    /\ snapshots' = Append(snapshots, tlocal[t])
    /\ tlocal' = [tlocal EXCEPT ![t] = <<>>]
    /\ tpc' = [tpc EXCEPT ![t] = "idle"]
    /\ UNCHANGED <<npushed, nfinalized, wsvars, genvars, modvars>>

(***************************************************************************)
(* The batch model handle (services/asr_stream.py lines 13-39, main.py).   *)
(* accel_ok and cpu_ok say whether WhisperModel(...) would succeed on the  *)
(* configured device and on the CPU.                                       *)
(***************************************************************************)
ModInit ==
    /\ proc = "starting"
    /\ model_singleton = "none"
    /\ loads = [accelerated |-> 0, cpu |-> 0]
    /\ got = [s \in Sessions |-> "none"]
    /\ closed = {}
    /\ mcalls = 0

\* a _get_model that constructs the model on every call
get_model_Reload(accel_ok, cpu_ok) ==
    IF accel_ok
    THEN [handle |-> "accelerated", raised |-> FALSE,
          loads |-> [loads EXCEPT !.accelerated = @ + 1]]
    ELSE [handle |-> IF cpu_ok THEN "cpu" ELSE "none", raised |-> ~cpu_ok,
          loads |-> [accelerated |-> loads.accelerated + 1, cpu |-> loads.cpu + 1]]

\* lines 16-34, _get_model(): the handle it returns and leaves in the
\* singleton, the constructions it attempted, and whether it raised
get_model(accel_ok, cpu_ok) ==
    IF model_singleton # "none"
    THEN [handle |-> model_singleton, raised |-> FALSE, loads |-> loads]
    ELSE IF accel_ok
    THEN [handle |-> "accelerated", raised |-> FALSE,
          loads |-> [loads EXCEPT !.accelerated = @ + 1]]
    ELSE [handle |-> IF cpu_ok THEN "cpu" ELSE "none", raised |-> ~cpu_ok,
          loads |-> [accelerated |-> loads.accelerated + 1, cpu |-> loads.cpu + 1]]

\* main.py lines 36-39: the startup handler preloads the model; when it
\* raises, the application does not start
WarmStart(accel_ok, cpu_ok) ==
    /\ proc = "starting"
    /\ LET m == get_model(accel_ok, cpu_ok)
       IN  /\ model_singleton' = m.handle
           /\ loads' = m.loads
           /\ proc' = IF m.raised THEN "failed" ELSE "serving"
    /\ mcalls' = mcalls + 1
    /\ UNCHANGED <<got, closed, wsvars, genvars, thrvars>>

\* asr_stream.py line 93: the finalize_segment of a connection's batch
\* engine decodes a non-empty snapshot with _get_model().transcribe(...)
Transcribe(s, accel_ok, cpu_ok) ==
    /\ proc = "serving"
    /\ asr_provider = "whisper"
    /\ s \notin closed
    /\ mcalls < MaxModelCalls
    /\ LET m == get_model(accel_ok, cpu_ok)
       IN  /\ model_singleton' = m.handle
           /\ loads' = m.loads
           /\ got' = [got EXCEPT ![s] = m.handle]
    /\ mcalls' = mcalls + 1
    /\ UNCHANGED <<proc, closed, wsvars, genvars, thrvars>>

\* asr_stream.py lines 105-107 (asr_vosk.py 91-93): close() of a
\* connection's engine, which touches nothing outside the engine
EngineClose(s) ==
    /\ proc = "serving"
    /\ s \notin closed
    /\ closed' = closed \cup {s}
    /\ UNCHANGED <<proc, model_singleton, loads, got, mcalls, wsvars, genvars, thrvars>>

\* asr_ws.py lines 24-26, 52-56: the client connects again and the handler
\* gives the new connection an engine of its own
Reconnect(s) ==
    /\ proc = "serving"
    /\ s \in closed
    /\ closed' = closed \ {s}
    /\ got' = [got EXCEPT ![s] = "none"]
    /\ UNCHANGED <<proc, model_singleton, loads, mcalls, wsvars, genvars, thrvars>>

(***************************************************************************)
(* Specifications                                                          *)
(***************************************************************************)
Init == WsInit /\ GenInit /\ EngInit /\ ModInit

Next ==
    \/ \E s \in Sessions, n \in FrameLens : ReceiveBytes(s, n)
    \/ \E s \in Sessions, f \in IgnoredText : ReceiveIgnoredText(s, f)
    \/ \E s \in Sessions : ReceiveNonObject(s)
    \/ \E s \in Sessions, f \in UnknownTypes : ReceiveUnknown(s, f)
    \/ \E s \in Sessions, numeric \in BOOLEAN : ReceiveStart(s, numeric)
    \/ \E s \in Sessions : ReceiveStop(s)
    \/ \E s \in Sessions, text \in Texts : FinishFinalize(s, text)
    \/ \E s \in Sessions : Disconnect(s)

Spec == Init /\ [][Next]_vars

NextGen ==
    \/ \E caller \in {"route", "direct"}, schema \in Schemas, e \in BOOLEAN :
          NewRequest(caller, schema, e)
    \/ \E status \in Statuses, content \in Contents \cup {NoContent} :
          FirstResponse(status, content)
    \/ \E status \in Statuses, content \in Contents \cup {NoContent} :
          RepairResponse(status, content)

SpecGen == Init /\ [][NextGen]_vars

NextEngine ==
    \/ \E t \in Threads : CallPush(t)
    \/ \E t \in Threads : PushAcquire(t)
    \/ \E t \in Threads : PushExtend(t)
    \/ \E t \in Threads : CallFinalize(t)
    \/ \E t \in Threads : FinAcquire(t)
    \/ \E t \in Threads : FinSnapshot(t)
    \/ \E t \in Threads : FinClear(t)
    \/ \E t \in Threads : FinReturn(t)

SpecEngine == Init /\ [][NextEngine]_vars

NextVosk ==
    \/ \E t \in Threads : VoskCallPush(t)
    \/ \E t \in Threads : VoskPushAcquire(t)
    \/ \E t \in Threads : VoskPushExtend(t)
    \/ \E t \in Threads : AcceptWaveform(t)
    \/ \E t \in Threads : VoskCallFinalize(t)
    \/ \E t \in Threads, raises \in BOOLEAN : FinalResult(t, raises)
    \/ \E t \in Threads : TryBody(t)
    \/ \E t \in Threads : Reset(t)
    \/ \E t \in Threads : VoskFinAcquire(t)
    \/ \E t \in Threads : VoskFinClear(t)

\* the process with one streaming engine shared by the threads
InitVosk == WsInit /\ GenInit /\ VoskInit /\ ModInit

SpecVosk == InitVosk /\ [][NextVosk]_vars

\* asr_ws.py lines 36 and 62: the handler is the engine's only caller
Caller == CHOOSE t \in Threads : TRUE

NextVoskSeq ==
    \/ VoskCallPush(Caller)
    \/ VoskPushAcquire(Caller)
    \/ VoskPushExtend(Caller)
    \/ AcceptWaveform(Caller)
    \/ VoskCallFinalize(Caller)
    \/ \E raises \in BOOLEAN : FinalResult(Caller, raises)
    \/ TryBody(Caller)
    \/ Reset(Caller)
    \/ VoskFinAcquire(Caller)
    \/ VoskFinClear(Caller)

SpecVoskSeq == InitVosk /\ [][NextVoskSeq]_vars

NextModel ==
    \/ \E accel_ok, cpu_ok \in BOOLEAN : WarmStart(accel_ok, cpu_ok)
    \/ \E s \in Sessions, accel_ok, cpu_ok \in BOOLEAN : Transcribe(s, accel_ok, cpu_ok)
    \/ \E s \in Sessions : EngineClose(s)
    \/ \E s \in Sessions : Reconnect(s)

SpecModel == Init /\ [][NextModel]_vars

(***************************************************************************)
(* Properties of the websocket sessions (checked under Spec)               *)
(***************************************************************************)

\* C1: whenever a "stop" is handled while an engine is present, the handler
\* replies "final" and then holds no engine (state IDLE).
C1_StopDropsEngine ==
    \A s \in Sessions :
        (frame[s] = "stop" /\ reply[s].type = "final") => engine[s] = NoEngine

\* the text frames C3 lists: malformed JSON, JSON that is not an object, an
\* object with a missing or unknown type, a "start" whose sample_rate is not
\* numeric
OddTextFrames == {"malformed", "nonobject", "start_bad"} \cup UnknownTypes

\* C3: after any of the listed text frames (and after a "stop" without a
\* start) the handler has replied with an error or sent nothing, and it is
\* still in its receive loop.
C3_TextFramesKeepLoop ==
    \A s \in Sessions :
        (frame[s] \in OddTextFrames \/ (frame[s] = "stop" /\ engine[s] = NoEngine))
            => (pc[s] = "loop" /\ reply[s].type \in {"error", "none"})

\* C5: a "start" whose engine construction fails is answered with an error
\* reply, and the handler goes on.
C5_ConstructionFailureReported ==
    \A s \in Sessions :
        (frame[s] = "start" /\ StartRaises)
            => (reply[s].type = "error" /\ pc[s] # "crashed")

\* C6: while one session's finalize_segment is decoding, the handler of
\* another session that has an engine can take a binary frame.
C6_DecodeDoesNotBlockOthers ==
    \A s, t \in Sessions :
        (s # t /\ pc[s] = "transcribing" /\ pc[t] = "loop" /\ engine[t] # NoEngine
             /\ Received < MaxBytes)
            => ENABLED ReceiveBytes(t, 1)

C8_NoCarryOver ==
    \A s \in Sessions :
        LET before == 1..startMark[s]
        IN  /\ Range(replaced[s]) \subseteq before
            /\ heard[s] \cap before = {}
            /\ Range(snap[s]) \cap before = {}
            /\ engine[s] # NoEngine =>
                  (Range(engine[s].pcm) \cup Range(engine[s].rec)) \cap before = {}

\* C8 witness: a "start" replaced an engine that had buffered audio, and a
\* later "stop" transcribed audio
C8_Witness ==
    \E s \in Sessions : replaced[s] # <<>> /\ heard[s] # {} /\ reply[s].type = "final"

C14_WitnessVosk ==
    \E s \in Sessions :
        /\ nbytes[s] = 0 /\ frame[s] = "stop" /\ reply[s] = Final("")
        /\ engine[s] # NoEngine /\ engine[s].kind = "vosk"

\* the audio a session holds or has transcribed since its last "start"
SegmentAudio(s) ==
    Range(snap[s]) \cup heard[s]
        \cup (IF engine[s] = NoEngine THEN {}
              ELSE Range(engine[s].pcm) \cup Range(engine[s].rec))

\* C15: a binary frame that arrives while the session has no engine is
\* discarded silently: nothing is sent, nothing is raised, the session is as
\* it was, and the discarded bytes are in no later segment's audio (they were
\* received before the mark of every later "start", and no audio from before
\* the mark is ever buffered, decoded or transcribed).
C15_FrameWithoutEngineDropped ==
    /\ [](\A s \in Sessions :
             /\ SegmentAudio(s) \cap (1..startMark[s]) = {}
             /\ engine[s] = NoEngine => (SegmentAudio(s) = {} /\ startMark[s] = 0))
    /\ [][\A s \in Sessions :
            /\ (engine[s] = NoEngine /\ nbytes'[s] # nbytes[s])
                  => /\ frame'[s] = "bytes"
                     /\ reply'[s] = NoReply
                     /\ pc'[s] = "loop"
                     /\ engine'[s] = NoEngine
                     /\ SegmentAudio(s)' = {}
            /\ (engine[s] = NoEngine /\ engine'[s] # NoEngine)
                  => /\ startMark'[s] = nbytes[s]
                     /\ SegmentAudio(s)' = {}
            /\ startMark'[s] >= startMark[s]
         ]_vars

\* C15 witness: a session received audio before any "start" and is still in
\* its loop, without an engine and without a reply
C15_Witness ==
    \E s \in Sessions :
        /\ engine[s] = NoEngine /\ frame[s] = "bytes" /\ nbytes[s] > 0
        /\ reply[s] = NoReply /\ pc[s] = "loop"

\* audio was dropped before the "start", and audio sent after it was
\* transcribed
C15_WitnessLater ==
    \E s \in Sessions :
        /\ startMark[s] > 0 /\ replaced[s] = <<>> /\ heard[s] # {}
        /\ ~refused[s] /\ frame[s] = "stop"

\* C16: a JSON object whose type is neither "start" nor "stop" (a missing
\* type reads as None) is answered {type:"error", error:"unknown type: <type>"}
\* and the session's engine, its presence and its buffered audio, is as it was.
C16_UnknownTypeReported ==
    [][\A s \in Sessions :
         frame'[s] \in UnknownTypes
            => /\ reply'[s] = Error(IF frame'[s] = "ping"
                                    THEN "unknown type: ping"
                                    ELSE "unknown type: None")
               /\ engine'[s] = engine[s]
               /\ snap'[s] = snap[s]
               /\ pc'[s] = "loop"
      ]_vars

\* C16 witness: a message of unknown type was answered while the engine held
\* audio
C16_Witness ==
    \E s \in Sessions :
        /\ frame[s] = "ping" /\ reply[s] = Error("unknown type: ping")
        /\ engine[s] # NoEngine /\ engine[s].pcm # <<>>

\* C17: a text frame that does not parse as JSON is dropped silently: nothing
\* is sent, and the engine and the handler's place in its loop are as they
\* were.
C17_MalformedJsonDropped ==
    [][\A s \in Sessions :
         frame'[s] = "malformed"
            => /\ reply'[s] = NoReply
               /\ engine'[s] = engine[s]
               /\ snap'[s] = snap[s]
               /\ pc'[s] = "loop"
      ]_vars

\* C17 witness: a malformed frame was taken while the engine held audio
C17_Witness ==
    \E s \in Sessions :
        /\ frame[s] = "malformed" /\ reply[s] = NoReply /\ pc[s] = "loop"
        /\ engine[s] # NoEngine /\ engine[s].pcm # <<>>

\* C18: when the connection ends while the handler holds an engine, close is
\* invoked on that engine and nothing is sent; the handler has ended and
\* sends nothing afterwards.  The disconnect reaches the handler wherever it
\* waits for a message: with or without an engine, with or without buffered
\* audio, after any reply.
C18_DisconnectReleasesEngine ==
    /\ [][\A s \in Sessions :
            /\ (frame'[s] = "disconnect" /\ frame[s] # "disconnect")
                  => /\ pc'[s] = "closed"
                     /\ reply'[s] = NoReply
                     /\ engine'[s] = engine[s]
                     /\ released'[s] <=> engine[s] # NoEngine
            /\ pc[s] = "closed"
                  => /\ pc'[s] = "closed"
                     /\ frame'[s] = "disconnect"
                     /\ reply'[s] = NoReply
                     /\ released'[s] = released[s]
         ]_vars
    /\ [](\A s \in Sessions :
             (pc[s] = "loop" /\ loop_busy = NoOne) => ENABLED Disconnect(s))

\* C18 witness: a connection ended while its engine held buffered audio, and
\* the engine was closed
C18_Witness ==
    \E s \in Sessions :
        /\ frame[s] = "disconnect" /\ pc[s] = "closed" /\ reply[s] = NoReply
        /\ engine[s] # NoEngine /\ engine[s].pcm # <<>> /\ released[s]

\* C22: handling a binary frame sends nothing and starts no decode, whatever
\* the state of the session; a decode starts only in the handling of a
\* "stop"; and when the handler is not in the middle of a "stop", it has sent
\* as many messages as it has received text frames that parse as a JSON
\* object.
C22_OneReplyPerObjectFrame ==
    /\ [][\A s \in Sessions :
            /\ nbytes'[s] # nbytes[s]
                  => /\ frame'[s] = "bytes"
                     /\ reply'[s] = NoReply
                     /\ unanswered'[s] = unanswered[s]
                     /\ pc'[s] = "loop"
                     /\ snap'[s] = snap[s]
                     /\ loop_busy' = loop_busy
            /\ (pc[s] # "transcribing" /\ pc'[s] = "transcribing")
                  => frame'[s] = "stop"
         ]_vars
    /\ [](\A s \in Sessions : pc[s] # "transcribing" => unanswered[s] = 0)

\* the same without the count of a handler that has ended: binary frames
\* never send or decode, and a handler in its receive loop has answered
\* every JSON-object frame
C22_WhileInLoop ==
    /\ [][\A s \in Sessions :
            /\ nbytes'[s] # nbytes[s]
                  => /\ frame'[s] = "bytes"
                     /\ reply'[s] = NoReply
                     /\ unanswered'[s] = unanswered[s]
                     /\ pc'[s] = "loop"
                     /\ snap'[s] = snap[s]
                     /\ loop_busy' = loop_busy
            /\ (pc[s] # "transcribing" /\ pc'[s] = "transcribing")
                  => frame'[s] = "stop"
         ]_vars
    /\ [](\A s \in Sessions : pc[s] \in {"loop", "closed"} => unanswered[s] = 0)

(***************************************************************************)
(* Properties of intent requests (checked under SpecGen)                   *)
(***************************************************************************)

\* the content is parseable as JSON
Parseable(c) == c.wellformed

\* the value is valid against the schema: for the Union FlexibleIntent, valid
\* against one of its members
Validates(schema, v) ==
    CASE schema = "SingleIntent"  -> SingleIntentValid(v)
      [] schema = "IntentCommand" -> IntentCommandValid(v)
      [] OTHER                    -> IntentCommandValid(v) \/ FlexMultiValid(v)

\* a call of generate_intent_json has ended and its first response arrived
\* with a success status
GenerateEnded == gpc = "done" /\ req.caller = "direct" /\ first.status = 200

\* C2: with enforce_schema disabled, a first response that parses as JSON but
\* fails validation is returned as it was parsed, after one model call; the
\* call fails with "Model did not return valid JSON" only when the response
\* is not parseable.
C2_BestEffortParse ==
    (GenerateEnded /\ ~req.enforce_schema)
        => /\ (Parseable(first.content) /\ ~Validates(req.schema, first.content.value))
                 => (result.kind = "ok" /\ result.value = first.content.value /\ calls = 1)
           /\ result.detail = "Model did not return valid JSON"
                 => ~Parseable(first.content)

\* C4: in permissive mode (schema enforcement off) every request of the intent
\* route whose generation step succeeded ends with an intent returned.
C4_PermissiveFallback ==
    (gpc = "done" /\ req.caller = "route" /\ ~req.enforce_schema /\ result.generated)
        => (result.kind = "ok" /\ result.status = 200)

\* C9: when the first response is valid JSON that validates against the
\* schema, that parsed object is returned unchanged and exactly one model
\* call is made, for every schema and either value of enforce_schema.
C9_ValidFirstResponseReturned ==
    (gpc \in {"repair_call", "done"} /\ req.caller = "direct" /\ first.status = 200
         /\ Parseable(first.content) /\ Validates(req.schema, first.content.value))
        => /\ gpc = "done"
           /\ calls = 1
           /\ result.kind = "ok"
           /\ result.value = first.content.value

\* C10: with enforce_schema enabled and a first response that is not
\* parseable, exactly one repair call is issued; an unparseable repair output
\* fails with "Repair failed: non-JSON output", a parseable one is returned.
C10_RepairAfterNonJson ==
    (gpc \in {"repair_call", "done"} /\ req.caller = "direct" /\ req.enforce_schema
         /\ first.status = 200 /\ ~Parseable(first.content))
        => /\ calls = 2
           /\ (gpc = "done" /\ repaired.status = 200)
                 => IF Parseable(repaired.content)
                    THEN result.kind = "ok" /\ result.value = repaired.content.value
                    ELSE result.kind = "error"
                         /\ result.detail = "Repair failed: non-JSON output"

\* C11: generate_intent_json issues at most two model calls, the first one and
\* at most one repair, and then ends with a value or an error; with
\* enforce_schema disabled it issues exactly one.
C11_AtMostTwoCalls ==
    /\ [](/\ calls <= 2
          /\ gpc = "first_call" => calls = 1
          /\ gpc = "repair_call" => (calls = 2 /\ req.enforce_schema)
          /\ gpc = "done" => /\ calls \in {1, 2}
                             /\ result.kind \in {"ok", "error"}
                             /\ ~req.enforce_schema => calls = 1)
    /\ [][/\ gpc = "first_call" => gpc' \in {"repair_call", "done"}
          /\ gpc = "repair_call" => gpc' = "done"]_vars

\* C11 witness: a request ended after its repair call
C11_Witness == gpc = "done" /\ calls = 2 /\ repaired.status = 200 /\ result.kind = "ok"

\* the status of the model call that failed, 200 when none did
FailedStatus == IF repaired.status \notin {0, 200} THEN repaired.status ELSE first.status

\* what a caller can tell a failure's kind by: the class of the exception the
\* generator raised and, for the client of the route, the response status
FailureKind(status, outcome) == <<UpstreamErrorClass(status), outcome.kind, outcome.status>>

\* C12: a request that failed on a rate-limit status (429) ends with a failure
\* whose kind differs from the kind of the failure any other non-success
\* status produces, for the caller of the generator and for the client of the
\* route.
C12_RateLimitDistinctKind ==
    (gpc = "done" /\ FailedStatus = 429)
        => \A other \in Statuses \ {200, 429} :
              FailureKind(429, result)
                  # FailureKind(other, Finish(RaiseErr(UpstreamError(other))))

\* the value generate_intent_json handed to post_intent
RawJson == IF repaired.status = 200 THEN repaired.content.value ELSE first.content.value

\* the raw value is an object whose "type" field equals "multi"
Tagged(raw) == raw.kind = "object" /\ "type" \in raw.has /\ raw.type = "multi"

\* a request of the intent route got a value from the generator
RouteValidated == gpc = "done" /\ req.caller = "route" /\ result.generated

\* C13: a raw object whose "type" is "multi" is validated as a multi-command
\* batch whatever the length of its commands list (zero and one included):
\* the request succeeds exactly when the object is a valid batch, and the
\* intent returned is that batch.  Every other value is validated as a single
\* command: the request succeeds exactly when it is a valid single command,
\* and the intent returned is a single command.
C13_ValidationDispatch ==
    RouteValidated
        => IF Tagged(RawJson)
           THEN /\ result.kind = "ok" <=> MultiIntentValid(RawJson)
                /\ result.kind = "ok"
                      => /\ result.value.type = "multi"
                         /\ Len(result.value.commands) = Len(RawJson.commands)
           ELSE /\ result.kind = "ok" <=> SingleIntentValid(RawJson)
                /\ result.kind = "ok"
                      => /\ "commands" \notin result.value.has
                         /\ result.value.type # "multi"

\* C13 witness: a batch of one command was returned as a batch
C13_Witness ==
    /\ RouteValidated /\ Tagged(RawJson) /\ Len(RawJson.commands) = 1
    /\ result.kind = "ok" /\ result.value.type = "multi"

\* an empty batch was returned as a batch
C13_WitnessEmpty ==
    /\ RouteValidated /\ Tagged(RawJson) /\ Len(RawJson.commands) = 0
    /\ result.kind = "ok" /\ result.value.type = "multi"

\* an object with the discriminator was refused although it is a valid single
\* command
C13_WitnessTaggedSingle ==
    /\ RouteValidated /\ Tagged(RawJson) /\ SingleIntentValid(RawJson)
    /\ result.status = 422

\* the strict schema of one command: the four required fields within their
\* closed vocabularies, speed in 0..10, a path that is not empty, a zone of
\* positive radius, deployCount in 1..10
StrictCommand(v) ==
    /\ v.kind = "object"
    /\ {"targets", "action", "formation", "direction", "speed"} \subseteq v.has
    /\ v.bad \cap v.has \cap SingleFields = {}
    /\ \A i \in 1..Len(v.targets) : v.targets[i] \in Target
    /\ v.action \in Action /\ v.formation \in Formation /\ v.direction \in Direction
    /\ v.speed \in 0..10
    /\ "path" \in v.has => v.pathLen >= 1
    /\ "zone" \in v.has => v.zoneR > 0
    /\ "deployCount" \in v.has => v.deployCount \in 1..10

\* the strict schema of an intent: one command, or a batch of commands
StrictIntent(v) ==
    \/ StrictCommand(v)
    \/ /\ v.kind = "object" /\ "commands" \in v.has /\ v.type = "multi"
       /\ "commands" \notin v.bad
       /\ \A i \in 1..Len(v.commands) : StrictCommand(v.commands[i])

\* C19: every successful response of post_intent carries an intent that
\* satisfies the strict schema; a value from the generator that violates it,
\* from the first call or from the repair, ends the request with status 422
\* and no intent.
C19_OnlyStrictIntentsReturned ==
    (gpc = "done" /\ req.caller = "route")
        => /\ result.kind = "ok"
                 => /\ result.status = 200
                    /\ result.generated
                    /\ StrictIntent(result.value)
                    /\ StrictIntent(RawJson)
           /\ (result.generated /\ ~StrictIntent(RawJson))
                 => /\ result.kind = "error"
                    /\ result.status = 422
                    /\ result.value = None

\* C19 witness: a repaired output that violates the strict schema ended the
\* request with 422
C19_Witness ==
    /\ gpc = "done" /\ req.caller = "route" /\ repaired.status = 200
    /\ result.generated /\ ~StrictIntent(RawJson) /\ result.status = 422

\* a request succeeded with a strict intent whose deployCount is at the bound
C19_WitnessSuccess ==
    /\ gpc = "done" /\ req.caller = "route" /\ result.kind = "ok"
    /\ StrictCommand(result.value) /\ result.value.deployCount = 10

\* each way of violating the strict schema of a complete command was refused
C19_WitnessRefused ==
    /\ gpc = "done" /\ req.caller = "route" /\ result.status = 422
    /\ RawJson \in {Charge, EmptyPath, ZeroZone, FlankDeploy18, TooFast, SpeedString}

\* C23: when the first model call ends with a non-success status, no repair
\* call is issued and the request ends with the upstream failure (502 at the
\* route); when the repair call ends that way, the request ends with the
\* upstream failure too; and the next request starts afresh, whatever the
\* request before it ended with.
C23_UpstreamFailureEndsRequest ==
    /\ [](/\ first.status \notin {0, 200}
                => /\ gpc = "done" /\ calls = 1 /\ repaired = NoResponse
                   /\ result.kind = "error" /\ ~result.generated
                   /\ req.caller = "route" => result.status = 502
          /\ repaired.status \notin {0, 200}
                => /\ gpc = "done" /\ calls = 2
                   /\ result.kind = "error" /\ ~result.generated
                   /\ req.caller = "route" => result.status = 502
          /\ gpc = "done" => ENABLED NewRequest("route", "SingleIntent", TRUE))
    /\ [][(gpc = "done" /\ gpc' # "done")
             => /\ gpc' = "first_call" /\ calls' = 1
                /\ first' = NoResponse /\ repaired' = NoResponse
                /\ result' = NoResult
         ]_vars

\* C23 witness: a request of the route ended 502 on a failed repair call
C23_Witness ==
    /\ gpc = "done" /\ req.caller = "route" /\ first.status = 200
    /\ repaired.status = 500 /\ result.status = 502

\* a request of the route ended 502 on a failed first call
C23_WitnessFirst ==
    /\ gpc = "done" /\ req.caller = "route" /\ first.status = 429
    /\ calls = 1 /\ result.status = 502

\* a well-formed multi-command object: {type: "multi", commands: [...]}
IsBatch(v) == v.kind = "object" /\ v.has = {"type", "commands"} /\ v.bad = {}
              /\ v.type = "multi"

\* the first response to a SingleIntent request was a well-formed batch
BatchFirst ==
    /\ gpc \in {"repair_call", "done"} /\ req.schema = "SingleIntent"
    /\ first.status = 200 /\ Parseable(first.content) /\ IsBatch(first.content.value)

\* C26: with the schema SingleIntent, a first response that is a well-formed
\* multi-command object is never what generate_intent_json returns from the
\* first call: with enforce_schema on, the repair call is issued before any
\* result; with enforce_schema off, the call fails with the generation error
\* (502 at the route).
C26_BatchNeverReturnedFromFirstCall ==
    BatchFirst
        => IF req.enforce_schema
           THEN /\ calls = 2
                /\ (gpc = "done" /\ result.generated) => repaired.status = 200
           ELSE /\ gpc = "done" /\ calls = 1
                /\ result.kind = "error" /\ ~result.generated
                /\ result.detail = "Model did not return valid JSON"
                /\ req.caller = "route" => result.status = 502

\* C26 witness: a batch of valid commands came first, and the request of the
\* route succeeded after the repair call
C26_Witness ==
    /\ BatchFirst /\ req.caller = "route" /\ req.enforce_schema
    /\ MultiIntentValid(first.content.value) /\ Len(first.content.value.commands) = 2
    /\ gpc = "done" /\ calls = 2 /\ result.kind = "ok"

\* the same batch with enforce_schema off: the request of the route failed
C26_WitnessPermissive ==
    /\ BatchFirst /\ req.caller = "route" /\ ~req.enforce_schema
    /\ MultiIntentValid(first.content.value) /\ result.status = 502

\* C27: every successful response of post_intent carries source "llm",
\* whether its intent came from the first call or from the repair call; no
\* outcome ever carries "grammar" or "repaired".
C27_SourceAlwaysLlm ==
    /\ (gpc = "done" /\ req.caller = "route" /\ result.kind = "ok")
          => result.source = "llm"
    /\ result.source \notin {"grammar", "repaired"}

\* C27 witness: a request of the route succeeded with the output of the
\* repair call
C27_Witness ==
    /\ gpc = "done" /\ req.caller = "route" /\ result.kind = "ok"
    /\ calls = 2 /\ repaired.status = 200 /\ result.source = "llm"

\* a request of the route succeeded with the output of the first call
C27_WitnessFirst ==
    /\ gpc = "done" /\ req.caller = "route" /\ result.kind = "ok"
    /\ calls = 1 /\ result.source = "llm"

(***************************************************************************)
(* Properties of the shared batch engine (checked under SpecEngine)        *)
(***************************************************************************)

\* the threads inside a `with self._lock` block
InPush == {t \in Threads : tpc[t] = "push_locked"}
InSnapshotAndClear == {t \in Threads : tpc[t] \in {"fin_locked", "fin_snapped"}}

\* how often byte b occurs in the sequence q
Count(b, q) == Cardinality({i \in 1..Len(q) : q[i] = b})

\* how often byte b occurs in the snapshots taken so far: those returned and
\* those being decoded
RECURSIVE CountIn(_, _)
CountIn(b, qs) == IF qs = <<>> THEN 0 ELSE Count(b, Head(qs)) + CountIn(b, Tail(qs))
RECURSIVE CountDecoding(_, _)
CountDecoding(b, T) ==
    IF T = {} THEN 0
    ELSE LET t == CHOOSE t \in T : TRUE
         IN  (IF tpc[t] = "fin_decode" THEN Count(b, tlocal[t]) ELSE 0)
                 + CountDecoding(b, T \ {t})
InSnapshots(b) == CountIn(b, snapshots) + CountDecoding(b, Threads)

\* the bytes whose push_audio call has extended the buffer
Pushed == (1..npushed) \ UNION {Range(tlocal[t]) :
                                  t \in {u \in Threads : tpc[u] \in {"push_enter", "push_locked"}}}

\* C20: push_audio's extend and finalize_segment's snapshot-and-clear on one
\* engine exclude each other (and themselves), and whenever no thread is
\* between a snapshot and its clear, every byte pushed so far is in exactly
\* one snapshot or, once, in the buffer: none is lost, none is duplicated.
C20_PushAndFinalizeExclusive ==
    /\ Cardinality(InPush \cup InSnapshotAndClear) <= 1
    /\ \A t \in InPush \cup InSnapshotAndClear : lock = t
    /\ (\A t \in Threads : tpc[t] # "fin_snapped")
          => \A b \in 1..MaxPushes :
                InSnapshots(b) + Count(b, shared.pcm) = (IF b \in Pushed THEN 1 ELSE 0)

\* C20 witness: two pushes and a finalize have interleaved: one byte is in a
\* snapshot that is being decoded while another was pushed into the buffer
C20_Witness ==
    \E t \in Threads :
        /\ tpc[t] = "fin_decode" /\ tlocal[t] # <<>>
        /\ shared.pcm # <<>> /\ snapshots # <<>>

(***************************************************************************)
(* Properties of the shared streaming engine (checked under SpecVosk)      *)
(***************************************************************************)

\* the positions of a thread inside finalize_segment
InFinalize == {"fin_result", "fin_try", "fin_reset", "fin_enter", "fin_locked"}

\* C21: whenever a finalize_segment call ends, by return or by exception,
\* the recognizer is in its reset state and the buffer is empty.
C21_FinalizeAlwaysResets ==
    [][\A t \in Threads :
         (tpc[t] \in InFinalize /\ tpc'[t] = "idle")
            => (shared'.rec = <<>> /\ shared'.pcm = <<>>)
      ]_vars

\* the same for the calls in which FinalResult() did not raise: the finally
\* block of lines 85-89 runs on every way out of the try statement
C21_ResetsPastFinalResult ==
    [][\A t \in Threads :
         (tpc[t] \in InFinalize \ {"fin_result"} /\ tpc'[t] = "idle")
            => (shared'.rec = <<>> /\ shared'.pcm = <<>>)
      ]_vars

\* C25: whenever no push_audio or finalize_segment call is in progress on
\* the engine, the recognizer holds, since its last reset, exactly the bytes
\* that are in the buffer (compared as sets of bytes, whatever their order).
C25_RecognizerMatchesBuffer ==
    (\A t \in Threads : tpc[t] = "idle") => Range(shared.rec) = Range(shared.pcm)

\* without overlapping calls the recognizer and the buffer do agree
C25_SingleCaller ==
    (\A t \in Threads : tpc[t] = "idle") => shared.rec = shared.pcm

(***************************************************************************)
(* Properties of the batch model handle (checked under SpecModel)          *)
(***************************************************************************)

\* C24: over every sequence of _get_model calls the process makes (the
\* startup preload, then the decodes of any connection) the accelerated load
\* is attempted at most once and the CPU fallback at most once; once a load
\* has succeeded every call returns that same handle; and no step, close()
\* of an engine included, removes or replaces the cached handle.
C24_ModelLoadedOnce ==
    /\ [](/\ loads.accelerated <= 1
          /\ loads.cpu <= 1
          /\ loads.cpu <= loads.accelerated
          /\ proc = "serving" => model_singleton \in {"accelerated", "cpu"}
          /\ \A s \in Sessions : got[s] \in {"none", model_singleton})
    /\ [][/\ model_singleton # "none" => model_singleton' = model_singleton
          /\ closed' # closed => (model_singleton' = model_singleton /\ loads' = loads)
         ]_vars

\* C24 witness: the accelerated load failed at startup, the CPU fallback
\* succeeded, a connection was closed, and a decode of another connection
\* made after that got the handle loaded at startup
C24_Witness ==
    \E s, t \in Sessions :
        /\ s # t /\ s \in closed /\ got[t] = "cpu" /\ model_singleton = "cpu"
        /\ loads = [accelerated |-> 1, cpu |-> 1] /\ mcalls = MaxModelCalls

====
